---- MODULE Spec2Model ----
(***************************************************************************)
(* Model of github-notification-manager (src/main.go): one run of main,    *)
(* the paginated fetch, the review loop, and the pure helpers uiURL and    *)
(* isRenovate.  Go strings are sequences of one-character strings, so     *)
(* HasPrefix, TrimPrefix, Split, ToLower and TrimSpace are computed        *)
(* character by character as the library does.                             *)
(***************************************************************************)
EXTENDS Integers, Sequences, FiniteSets, TLC

\* ------------------------------------------------------------------ bounds
MaxNotifs == 2      \* notifications the server holds over all pages
MaxTime   == 2      \* distinct last-updated timestamps 1..MaxTime
MaxPage   == 2      \* page numbers a next-page indicator may name
MaxSegs   == 4      \* path segments after the API root in a uiURL input

\* ------------------------------------------------------- string primitives
HasPrefix(s, p) == Len(s) >= Len(p) /\ SubSeq(s, 1, Len(p)) = p

TrimPrefix(s, p) == IF HasPrefix(s, p) THEN SubSeq(s, Len(p) + 1, Len(s)) ELSE s

\* index of the first "/" in s, 0 when there is none
RECURSIVE IndexSlash(_, _)
IndexSlash(s, k) ==
    IF k > Len(s) THEN 0
    ELSE IF s[k] = "/" THEN k
    ELSE IndexSlash(s, k + 1)

\* strings.Split(s, "/"): n separators give n+1 parts, "" gives <<"">>
RECURSIVE Split(_)
Split(s) ==
    LET k == IndexSlash(s, 1) IN
    IF k = 0 THEN << s >>
    ELSE << SubSeq(s, 1, k - 1) >> \o Split(SubSeq(s, k + 1, Len(s)))

LowerChar(c) ==
    CASE c = "A" -> "a" [] c = "B" -> "b" [] c = "C" -> "c" [] c = "D" -> "d"
      [] c = "E" -> "e" [] c = "F" -> "f" [] c = "G" -> "g" [] c = "H" -> "h"
      [] c = "I" -> "i" [] c = "J" -> "j" [] c = "K" -> "k" [] c = "L" -> "l"
      [] c = "M" -> "m" [] c = "N" -> "n" [] c = "O" -> "o" [] c = "P" -> "p"
      [] c = "Q" -> "q" [] c = "R" -> "r" [] c = "S" -> "s" [] c = "T" -> "t"
      [] c = "U" -> "u" [] c = "V" -> "v" [] c = "W" -> "w" [] c = "X" -> "x"
      [] c = "Y" -> "y" [] c = "Z" -> "z" [] OTHER -> c

ToLower(s) == [k \in 1..Len(s) |-> LowerChar(s[k])]

WhiteSpace == {" ", "\n", "\t", "\r"}

RECURSIVE TrimLeft(_)
TrimLeft(s) ==
    IF s # << >> /\ s[1] \in WhiteSpace THEN TrimLeft(Tail(s)) ELSE s

RECURSIVE TrimRight(_)
TrimRight(s) ==
    IF s # << >> /\ s[Len(s)] \in WhiteSpace
    THEN TrimRight(SubSeq(s, 1, Len(s) - 1)) ELSE s

TrimSpace(s) == TrimRight(TrimLeft(s))

\* ------------------------------------------------------------------- uiURL
prefix == <<"h","t","t","p","s",":","/","/","a","p","i",".","g","i","t","h","u","b",".","c","o","m","/","r","e","p","o","s","/">>

WebRoot == <<"h","t","t","p","s",":","/","/","g","i","t","h","u","b",".","c","o","m","/">>

Pulls    == <<"p","u","l","l","s">>
Issues   == <<"i","s","s","u","e","s">>
Commits  == <<"c","o","m","m","i","t","s">>
Releases == <<"r","e","l","e","a","s","e","s">>

KnownKinds == {Pulls, Issues, Commits, Releases}

KindPathPlural(kind) ==
    CASE kind = Pulls    -> <<"/","p","u","l","l","s","/">>
      [] kind = Issues   -> <<"/","i","s","s","u","e","s","/">>
      [] kind = Commits  -> <<"/","c","o","m","m","i","t","s","/">>
      [] kind = Releases -> <<"/","r","e","l","e","a","s","e","s","/">>

\* the path element each case of the switch formats into the link
KindPath(kind) ==
    CASE kind = Pulls    -> <<"/","p","u","l","l","/">>
      [] kind = Issues   -> <<"/","i","s","s","u","e","s","/">>
      [] kind = Commits  -> <<"/","c","o","m","m","i","t","/">>
      [] kind = Releases -> <<"/","r","e","l","e","a","s","e","s","/">>

uiURL(u) ==
    IF ~HasPrefix(u, prefix) THEN u
    ELSE LET path  == TrimPrefix(u, prefix)
             parts == Split(path)
         IN  IF Len(parts) < 3 THEN u
             ELSE LET owner    == parts[1]
                      repo     == parts[2]
                      kind     == parts[3]
                      repoPath == owner \o <<"/">> \o repo
                  IN  IF kind \in KnownKinds
                      THEN IF Len(parts) >= 4
                           THEN WebRoot \o repoPath \o KindPath(kind) \o parts[4]
                           ELSE WebRoot \o repoPath    \* fallback after the switch
                      ELSE WebRoot \o repoPath         \* default case

\* -------------------------------------------------------------- isRenovate
ChoreDeps == <<"c","h","o","r","e","(","d","e","p","s",")">>
FixDeps   == <<"f","i","x","(","d","e","p","s",")">>

isRenovateChoreOnly(n) == HasPrefix(n.title, ChoreDeps)

isRenovate(n) ==
    IF HasPrefix(n.title, ChoreDeps) THEN TRUE
    ELSE IF HasPrefix(n.title, FixDeps) THEN TRUE
    ELSE FALSE

\* ------------------------------------------------------------ notifications
ChoreTitle == <<"c","h","o","r","e","(","d","e","p","s",")",":"," ","b","u","m","p"," ","l","o","d","a","s","h">>
PlainTitle == <<"A","d","d"," ","n","e","w"," ","f","e","a","t","u","r","e">>

\* titles the modelled server hands out in a run
RunTitles == {ChoreTitle, PlainTitle}

PullURL == prefix \o <<"a","c","m","e","/","w","i","d","g","e","t","s","/","p","u","l","l","s","/","4","2">>

Notification(id, title, ts) ==
    [id |-> id, title |-> title, type |-> "PullRequest", repo |-> "runatlantis/atlantis",
     url |-> PullURL, updatedAt |-> ts]

\* a page the server may answer with when `have` notifications were already
\* delivered: fresh thread ids, any titles and timestamps
Pages(have) ==
    UNION { { [k \in 1..len |-> Notification(have + k, f[k][1], f[k][2])] :
                f \in [1..len -> RunTitles \X (1..MaxTime)] } :
            len \in 0..(MaxNotifs - have) }

\* ---------------------------------------------------------------- the sort
LessBefore(a, b) == a.updatedAt < b.updatedAt

\* the less function handed to sort.Slice
Less(a, b) == a.updatedAt > b.updatedAt

IsSorted(s) == \A k \in 1..(Len(s) - 1) : ~Less(s[k + 1], s[k])

Perms(n) == { f \in [1..n -> 1..n] : \A a, b \in 1..n : f[a] = f[b] => a = b }

\* sort.Slice is not stable: every ordering of s that is sorted by Less
SortSlice(s) ==
    { t \in { [k \in 1..Len(s) |-> s[f[k]]] : f \in Perms(Len(s)) } : IsSorted(t) }

Reverse(s) == [k \in 1..Len(s) |-> s[Len(s) + 1 - k]]

\* -------------------------------------------------------- hooks of the code
IsEmptyNever(ns) == Len(ns) < 0

IsEmpty(ns) == Len(ns) = 0

FetchErrorResultPartial(acc) == acc

\* what fetchAllUnread returns beside the error
FetchErrorResult(acc) == << >>

NextRequestPageStuck(page, next) == page

\* opts.ListOptions.Page = resp.NextPage
NextRequestPage(page, next) == next

ConfirmsUnlessNo(text) == text # <<"n">>

Confirms(text) == text = <<"y">> \/ text = <<"y","e","s">>

Normalize(text) == TrimSpace(ToLower(text))

ContinueAfterAutoMissing == FALSE

\* the continue that ends an auto-approved iteration
ContinueAfterAuto == TRUE

markAsReadFatal(n, ok) ==
    [req |-> n.id, ev |-> IF ok THEN "marked" ELSE "failed", fatal |-> ~ok]

\* one MarkThreadRead request; a failure is logged and the caller goes on
markAsRead(n, ok) ==
    [req |-> n.id, ev |-> IF ok THEN "marked" ELSE "failed", fatal |-> FALSE]

\* ------------------------------------------------------------ standard input
\* what one ReadString('\n') may return: a line with its newline, or the rest
\* of the input when it ends without one (then every later read is empty)
StdinLines ==
    { <<"Y","\n">>, <<" ","y","e","s"," ","\n">>, <<"y">>,
      <<"\n">>, <<"m","a","y","b","e","\n">>, << >> }

EndsInput(line) == line = << >> \/ line[Len(line)] # "\n"

\* ------------------------------------------------------------------- state
VARIABLES
    pc,             \* where the run is: start, fetch, await, fetched, loop,
                    \* done, exit (clean return), fatal (log.Fatal), idle
    token,          \* GITHUB_TOKEN
    optsPage,       \* opts.ListOptions.Page
    reqPage,        \* page of the request sent last (0: none yet)
    resp,           \* the last answer of ListRepositoryNotifications
    all,            \* fetchAllUnread's accumulator
    sumCounts,      \* sum of the lengths of the pages received
    notifications,  \* main's slice
    err,            \* main's err
    i,              \* the loop index (0-based, as in the code)
    processed,      \* one record per finished loop iteration, in order
    linesRead,      \* what each ReadString returned, in order
    eof,            \* standard input is exhausted
    out,            \* what was printed or logged, in order
    markReqs,       \* thread ids of the MarkThreadRead requests, in order
    urlIn,          \* uiURL study: how the input was assembled
    apiURL,         \* uiURL study: the input string
    urlOut,         \* uiURL study: the result
    clsIn,          \* isRenovate study: a pair of notifications
    clsOut,         \* isRenovate study: their classifications
    ppc             \* position of the pure-function studies

runVars  == << pc, token, optsPage, reqPage, resp, all, sumCounts, notifications,
               err, i, processed, linesRead, eof, out, markReqs >>
pureVars == << urlIn, apiURL, urlOut, clsIn, clsOut, ppc >>
vars     == << pc, token, optsPage, reqPage, resp, all, sumCounts, notifications,
               err, i, processed, linesRead, eof, out, markReqs,
               urlIn, apiURL, urlOut, clsIn, clsOut, ppc >>

NoResp == [ns |-> << >>, next |-> 0, err |-> FALSE]

Ev(kind, id) == [ev |-> kind, id |-> id]

RunIdle ==
    /\ optsPage = 0 /\ reqPage = 0 /\ resp = NoResp /\ all = << >> /\ sumCounts = 0
    /\ notifications = << >> /\ err = FALSE /\ i = 0 /\ processed = << >>
    /\ linesRead = << >> /\ eof = FALSE /\ out = << >> /\ markReqs = << >>

PureIdle ==
    /\ urlIn = << >> /\ apiURL = << >> /\ urlOut = << >>
    /\ clsIn = << >> /\ clsOut = << >> /\ ppc = "idle"

Init ==
    /\ pc = "start"
    /\ token \in {"", "ghp_token"}
    /\ RunIdle
    /\ PureIdle

\* ------------------------------------------------------------------- main
\* lines 22-29 and the entry of fetchAllUnread (lines 104-113)
Start ==
    /\ pc = "start"
    /\ IF token = ""
       THEN /\ pc' = "fatal"
            /\ out' = Append(out, Ev("fatal-config", 0))
            /\ UNCHANGED << optsPage >>
       ELSE /\ pc' = "fetch"
            /\ optsPage' = 1
            /\ UNCHANGED << out >>
    /\ UNCHANGED << token, reqPage, resp, all, sumCounts, notifications, err, i,
                    processed, linesRead, eof, markReqs >>
    /\ UNCHANGED pureVars

\* line 115: the request for page opts.Page goes out
FetchRequest ==
    /\ pc = "fetch"
    /\ reqPage' = optsPage
    /\ pc' = "await"
    /\ UNCHANGED << token, optsPage, resp, all, sumCounts, notifications, err, i,
                    processed, linesRead, eof, out, markReqs >>
    /\ UNCHANGED pureVars

\* lines 115-126: the answer arrives; append, then stop or move to the next page
FetchResponse(ns, next, failed) ==
    /\ pc = "await"
    /\ resp' = [ns |-> ns, next |-> next, err |-> failed]
    /\ IF failed
       THEN /\ notifications' = FetchErrorResult(all)
            /\ err' = TRUE
            /\ pc' = "fetched"
            /\ UNCHANGED << all, sumCounts, optsPage >>
       ELSE /\ all' = all \o ns
            /\ sumCounts' = sumCounts + Len(ns)
            /\ IF next = 0
               THEN /\ notifications' = all'
                    /\ err' = FALSE
                    /\ pc' = "fetched"
                    /\ UNCHANGED optsPage
               ELSE /\ optsPage' = NextRequestPage(optsPage, next)
                    /\ pc' = "fetch"
                    /\ UNCHANGED << notifications, err >>
    /\ UNCHANGED << token, reqPage, i, processed, linesRead, eof, out, markReqs >>
    /\ UNCHANGED pureVars

Fetch ==
    \/ FetchRequest
    \/ /\ pc = "await"
       /\ \E ns \in Pages(Len(all)), next \in 0..MaxPage : FetchResponse(ns, next, FALSE)
    \/ FetchResponse(<< >>, 0, TRUE)

\* lines 31-50: the error and emptiness checks, the sort, the reversal and
\* the loop's initialisation; fetchAllUnread's locals are gone
AfterFetch ==
    /\ pc = "fetched"
    /\ optsPage' = 0 /\ reqPage' = 0 /\ resp' = NoResp /\ all' = << >>
    /\ IF err
       THEN /\ pc' = "fatal"
            /\ out' = Append(out, Ev("fatal-fetch", 0))
            /\ UNCHANGED << notifications, i >>
       ELSE IF IsEmpty(notifications)
       THEN /\ pc' = "exit"
            /\ out' = Append(out, Ev("none", 0))
            /\ UNCHANGED << notifications, i >>
       ELSE \E sorted \in SortSlice(notifications) :
            /\ notifications' = Reverse(sorted)
            /\ IF IsEmpty(notifications')
               THEN /\ pc' = "exit"
                    /\ out' = Append(out, Ev("none", 0))
                    /\ UNCHANGED i
               ELSE /\ pc' = "loop"
                    /\ i' = Len(notifications') - 1
                    /\ UNCHANGED out
    /\ UNCHANGED << token, sumCounts, err, processed, linesRead, eof, markReqs >>
    /\ UNCHANGED pureVars

\* lines 51-78: one iteration of the review loop.  `line` is what ReadString
\* returns if the iteration reads, `ok` whether a MarkThreadRead succeeds.
\* The five lines rendered for a notification (title, repository, type, the
\* link uiURL gives, age) are the single event "show"; uiURL has no effect on
\* the loop and is studied under SpecURL.
Review(line, ok) ==
    /\ pc = "loop"
    /\ i >= 0
    /\ eof => line = << >>
    /\ LET n       == notifications[i + 1]
           auto    == isRenovate(n)
           asks    == ~auto \/ ~ContinueAfterAuto
           text    == Normalize(line)
           yes     == asks /\ Confirms(text)
           res     == markAsRead(n, ok)
           autoOut == IF auto
                      THEN << Ev("auto", n.id), Ev(res.ev, n.id) >>
                      ELSE << >>
           askOut  == IF asks
                      THEN << Ev("show", n.id), Ev("prompt", n.id),
                              IF yes THEN Ev(res.ev, n.id)
                                     ELSE Ev("skipped", n.id) >>
                      ELSE << >>
           reqs    == (IF auto THEN << res.req >> ELSE << >>)
                         \o (IF yes THEN << res.req >> ELSE << >>)
       IN  /\ out' = out \o << Ev("sep", n.id) >> \o autoOut \o askOut
           /\ markReqs' = markReqs \o reqs
           /\ linesRead' = IF asks THEN Append(linesRead, line) ELSE linesRead
           /\ eof' = IF asks THEN eof \/ EndsInput(line) ELSE eof
           /\ processed' = Append(processed,
                  [id |-> n.id, lineIdx |-> IF asks THEN Len(linesRead) + 1 ELSE 0])
           /\ IF reqs # << >> /\ res.fatal
              THEN pc' = "fatal" /\ UNCHANGED i
              ELSE pc' = "loop" /\ i' = i - 1
    /\ UNCHANGED << token, optsPage, reqPage, resp, all, sumCounts, notifications, err >>
    /\ UNCHANGED pureVars

\* line 80: the loop is over
Finish ==
    /\ pc = "loop"
    /\ i < 0
    /\ out' = Append(out, Ev("done", 0))
    /\ pc' = "done"
    /\ UNCHANGED << token, optsPage, reqPage, resp, all, sumCounts, notifications, err,
                    i, processed, linesRead, eof, markReqs >>
    /\ UNCHANGED pureVars

Next ==
    \/ Start
    \/ Fetch
    \/ AfterFetch
    \/ \E line \in StdinLines, ok \in BOOLEAN : Review(line, ok)
    \/ Finish

Spec == Init /\ [][Next]_vars

\* the process is never suspended for ever: every call returns and the next
\* statement runs
FairSpec == Spec /\ WF_vars(Next)

\* --------------------------------------------------------- the uiURL study
\* Inputs are assembled from a root and a list of slash-free path segments,
\* so that what uiURL recovers by splitting can be compared with what the
\* input was built from.
Acme     == <<"a","c","m","e">>
Widgets  == <<"w","i","d","g","e","t","s">>
Discussions == <<"d","i","s","c","u","s","s","i","o","n","s">>
Id42     == <<"4","2">>
IdAbc    == <<"a","b","c","1","2","3">>
NotGithub == <<"n","o","t","-","a","-","g","i","t","h","u","b","-","u","r","l">>
HttpRoot == <<"h","t","t","p",":","/","/","a","p","i",".","g","i","t","h","u","b",".","c","o","m","/","r","e","p","o","s","/">>

Roots == {prefix, WebRoot, NotGithub, HttpRoot}

SegAt(k) ==
    CASE k = 1 -> {<< >>, Acme}
      [] k = 2 -> {<< >>, Widgets}
      [] k = 3 -> {<< >>, Pulls, Issues, Commits, Releases, Discussions}
      [] OTHER -> {<< >>, Id42, IdAbc}

AllSegs == UNION { SegAt(k) : k \in 1..4 }

SegLists ==
    UNION { { l \in [1..len -> AllSegs] : \A k \in 1..len : l[k] \in SegAt(k) } :
            len \in 0..MaxSegs }

RECURSIVE Join(_)
Join(l) ==
    IF l = << >> THEN << >>
    ELSE IF Len(l) = 1 THEN l[1]
    ELSE l[1] \o <<"/">> \o Join(Tail(l))

InitURL ==
    /\ pc = "idle" /\ token = "" /\ RunIdle
    /\ clsIn = << >> /\ clsOut = << >>
    /\ ppc = "url"
    /\ urlIn \in [root : Roots, segs : SegLists]
    /\ apiURL = urlIn.root \o Join(urlIn.segs)
    /\ urlOut = << >>

ApplyUiURL ==
    /\ ppc = "url"
    /\ urlOut' = uiURL(apiURL)
    /\ ppc' = "done"
    /\ UNCHANGED << urlIn, apiURL, clsIn, clsOut >>
    /\ UNCHANGED runVars

SpecURL == InitURL /\ [][ApplyUiURL]_vars

\* ----------------------------------------------------- the isRenovate study
Leads == {<< >>, <<" ">>, <<"x">>}
Marks == {ChoreDeps, FixDeps, <<"C","h","o","r","e","(","d","e","p","s",")">>,
          <<"c","h","o","r","e","(","d","e","p">>, <<"f","e","a","t">>, << >>}
Rests == {<< >>, <<":"," ","b","u","m","p"," ","x">>}

TitleParts == [lead : Leads, mark : Marks, rest : Rests]

TitleOf(p) == p.lead \o p.mark \o p.rest

InitClassify ==
    /\ pc = "idle" /\ token = "" /\ RunIdle
    /\ urlIn = << >> /\ apiURL = << >> /\ urlOut = << >>
    /\ ppc = "classify"
    /\ \E p1, p2 \in TitleParts :
       \E ty \in {"PullRequest", "Issue"}, rp \in {"runatlantis/atlantis", "acme/widgets"},
          id \in {1, 2}, ts \in {1, 2} :
          clsIn = << [parts |-> p1,
                      n |-> [id |-> 1, title |-> TitleOf(p1), type |-> "PullRequest",
                             repo |-> "runatlantis/atlantis", url |-> PullURL,
                             updatedAt |-> 1]],
                     [parts |-> p2,
                      n |-> [id |-> id, title |-> TitleOf(p2), type |-> ty,
                             repo |-> rp, url |-> PullURL, updatedAt |-> ts]] >>
    /\ clsOut = << >>

ApplyIsRenovate ==
    /\ ppc = "classify"
    /\ clsOut' = << isRenovate(clsIn[1].n), isRenovate(clsIn[2].n) >>
    /\ ppc' = "done"
    /\ UNCHANGED << urlIn, apiURL, urlOut, clsIn >>
    /\ UNCHANGED runVars

SpecClassify == InitClassify /\ [][ApplyIsRenovate]_vars

\* =================================================================== claims
Range(s) == { s[k] : k \in 1..Len(s) }

Count(s, x) == Cardinality({ k \in 1..Len(s) : s[k] = x })

ById(id) == CHOOSE n \in Range(notifications) : n.id = id

Events(kinds, id) == { k \in 1..Len(out) : out[k].ev \in kinds /\ out[k].id = id }

\* the raw input lines that the specification counts as a confirmation
ConfirmingLines == { <<"Y","\n">>, <<" ","y","e","s"," ","\n">>, <<"y">> }

\* the run titles that carry an auto-approval marker
MarkedTitles == { ChoreTitle }

Answer(p) == IF p.lineIdx = 0 THEN << >> ELSE linesRead[p.lineIdx]

\* C1 as stated: notifications are processed in ascending last-updated order
\* (oldest first): whenever A is processed before B, A's last-updated time is
\* at most B's.
C1_ProcessedOldestFirst ==
    \A a, b \in 1..Len(processed) :
        a < b => ById(processed[a].id).updatedAt <= ById(processed[b].id).updatedAt

\* C1 amended: notifications are processed in descending last-updated order
\* (newest first): whenever A is processed before B, A's last-updated time is
\* at least B's.
C1_ProcessedNewestFirst ==
    \A a, b \in 1..Len(processed) :
        a < b => ById(processed[a].id).updatedAt >= ById(processed[b].id).updatedAt

C1_Witness ==
    /\ pc = "done"
    /\ Len(processed) >= 2
    /\ ById(processed[1].id).updatedAt > ById(processed[Len(processed)].id).updatedAt

\* C2: a mark-as-read request is issued for a processed notification if and
\* only if its title carries the auto-approval marker or the line read for it
\* is a confirmation (y or yes up to case and surrounding whitespace); every
\* other line, the empty line and the end of input issue no request, and no
\* request is ever issued for a notification that was not processed.
C2_MarkedIffApprovedOrConfirmed ==
    /\ \A k \in 1..Len(processed) :
          LET p == processed[k] IN
          (Count(markReqs, p.id) >= 1)
              <=> \/ ById(p.id).title \in MarkedTitles
                  \/ (p.lineIdx # 0 /\ Answer(p) \in ConfirmingLines)
    /\ \A id \in Range(markReqs) : \E k \in 1..Len(processed) : processed[k].id = id
    /\ \A k \in 1..Len(processed) :
          LET p == processed[k] IN
          (Events({"skipped"}, p.id) # {}) <=> (Count(markReqs, p.id) = 0)

C2_Witness ==
    /\ pc = "done"
    /\ \E a, b \in 1..Len(processed) :
          /\ Answer(processed[a]) = <<" ","y","e","s"," ","\n">>
          /\ Count(markReqs, processed[a].id) = 1
          /\ processed[b].lineIdx # 0
          /\ Answer(processed[b]) = << >>
          /\ Count(markReqs, processed[b].id) = 0

\* C3: an auto-approved notification is marked read without a prompt and
\* without reading input; exactly one line is read per other notification, and
\* the k-th line read belongs to the k-th such notification in processing
\* order.
C3_OneLinePerPrompted ==
    LET manual == SelectSeq(processed, LAMBDA p : ById(p.id).title \notin MarkedTitles)
    IN  /\ Len(linesRead) = Len(manual)
        /\ \A k \in 1..Len(manual) :
              /\ manual[k].lineIdx = k
              /\ Cardinality(Events({"prompt"}, manual[k].id)) = 1
        /\ \A k \in 1..Len(processed) :
              ById(processed[k].id).title \in MarkedTitles
                  => /\ processed[k].lineIdx = 0
                     /\ Events({"prompt", "show", "skipped"}, processed[k].id) = {}
                     /\ Cardinality(Events({"auto"}, processed[k].id)) = 1
                     /\ Count(markReqs, processed[k].id) = 1

C3_Witness ==
    /\ pc = "done"
    /\ Len(processed) = 2
    /\ ById(processed[1].id).title \in MarkedTitles
    /\ ById(processed[2].id).title \notin MarkedTitles
    /\ processed[2].lineIdx = 1
    /\ Len(linesRead) = 1

\* C4: when a page request fails, fetchAllUnread returns no notifications
\* beside the error, whatever it had accumulated, and the run aborts: nothing is
\* presented, prompted or marked, and no page is requested again.
C4_FetchFailureAborts ==
    /\ (pc = "fetched" /\ err) => notifications = << >>
    /\ err => /\ pc \in {"fetched", "fatal"}
              /\ notifications = << >>
              /\ processed = << >> /\ linesRead = << >> /\ markReqs = << >>
              /\ \A k \in 1..Len(out) : out[k].ev = "fatal-fetch"

C4_Witness ==
    /\ pc = "fatal"
    /\ err
    /\ sumCounts >= 1
    /\ out = << Ev("fatal-fetch", 0) >>

\* C5, the state part: a failed mark-as-read request is contained: no
\* notification is processed twice or marked twice, a failure never aborts the
\* run, and at the end every notification was processed exactly once.
C5_Contained ==
    /\ \A k \in 1..Len(processed) : Count([j \in 1..Len(processed) |-> processed[j].id],
                                          processed[k].id) = 1
    /\ \A id \in Range(markReqs) : Count(markReqs, id) = 1
    /\ pc = "fatal" => markReqs = << >>
    /\ pc = "done" => /\ Len(processed) = Len(notifications)
                      /\ \A n \in Range(notifications) :
                            \E k \in 1..Len(processed) : processed[k].id = n.id
                      /\ out[Len(out)].ev = "done"
                      /\ Cardinality({ k \in 1..Len(out) : out[k].ev = "done" }) = 1

\* C5, whole: the containment above holds in every state, and every run that
\* enters the review loop reaches the final "Done" message.
C5_MarkFailureIsNotFatal ==
    /\ []C5_Contained
    /\ (pc = "loop") ~> (pc = "done")

C5_Witness ==
    /\ pc = "done"
    /\ Len(processed) = 2
    /\ Events({"failed"}, processed[1].id) # {}
    /\ Count(markReqs, processed[2].id) = 1

\* what C6 says of one step of the fetch
C6_Step ==
    /\ (pc = "start" /\ pc' = "fetch") => optsPage' = 1
    /\ (pc = "fetch" /\ pc' = "await")
          => reqPage' = (IF reqPage = 0 THEN 1 ELSE resp.next)
    /\ (pc = "await" /\ pc' # "await")
          => /\ (pc' = "fetched") <=> (resp'.err \/ resp'.next = 0)
             /\ (pc' = "fetch") <=> (~resp'.err /\ resp'.next # 0)
             /\ ~resp'.err => /\ all' = all \o resp'.ns
                              /\ sumCounts' = sumCounts + Len(resp'.ns)
             /\ (pc' = "fetched" /\ ~resp'.err) => notifications' = all \o resp'.ns

\* C6 amended: page 1 is requested first and then exactly the page each
\* response names, one request at a time; the fetch stops at the first response
\* that names no next page (or fails) and at no other, and then returns the
\* concatenation of the pages received, in request order, whose length is the
\* sum of the page lengths.  It goes on for as long as the server names a next
\* page.
C6_FollowsNextPageUntilNone ==
    /\ [][C6_Step]_vars
    /\ [](pc \in {"fetch", "await", "fetched"} => Len(all) = sumCounts)
    /\ []((pc = "fetched" /\ ~err) => Len(notifications) = sumCounts)

\* C6 as stated: the same, and in addition the fetch never loops
\* indefinitely: once started it returns.
C6_FetchNeverLoopsIndefinitely ==
    /\ [][C6_Step]_vars
    /\ (pc = "fetch") ~> (pc = "fetched")

C6_Witness ==
    /\ pc = "fetched"
    /\ ~err
    /\ reqPage = 2
    /\ Len(resp.ns) = 1
    /\ Len(notifications) = 2
    /\ notifications[2] = resp.ns[1]

\* the link the mapping table gives for an input assembled from root and segs
TableLink(in) ==
    LET segs   == in.segs
        nparts == IF segs = << >> THEN 1 ELSE Len(segs)
        input  == in.root \o Join(segs)
        home   == WebRoot \o segs[1] \o <<"/">> \o segs[2]
        deep(path) == home \o <<"/">> \o path \o <<"/">> \o segs[4]
    IN  IF in.root # prefix \/ nparts < 3 THEN input
        ELSE IF nparts >= 4 /\ segs[3] = Pulls    THEN deep(<<"p","u","l","l">>)
        ELSE IF nparts >= 4 /\ segs[3] = Issues   THEN deep(<<"i","s","s","u","e","s">>)
        ELSE IF nparts >= 4 /\ segs[3] = Commits  THEN deep(<<"c","o","m","m","i","t">>)
        ELSE IF nparts >= 4 /\ segs[3] = Releases THEN deep(<<"r","e","l","e","a","s","e","s">>)
        ELSE home

\* C7: uiURL agrees with the mapping table on every input: unchanged without
\* the API root or with fewer than 3 segments, the deep link for the four
\* known kinds with a 4th segment, the repository homepage otherwise.
C7_AgreesWithMappingTable ==
    ppc = "done" /\ urlIn # << >> => urlOut = TableLink(urlIn)

C7_Witness ==
    /\ ppc = "done"
    /\ urlIn = [root |-> prefix, segs |-> << Acme, Widgets, Commits, IdAbc >>]
    /\ urlOut = WebRoot \o <<"a","c","m","e","/","w","i","d","g","e","t","s","/","c","o","m","m","i","t","/","a","b","c","1","2","3">>

\* a link https://github.com/<owner>/<repo>[/<path>/<id>] with owner, repo
\* and id non-empty
WellFormedLink(u) ==
    /\ HasPrefix(u, WebRoot)
    /\ LET parts == Split(TrimPrefix(u, WebRoot))
       IN  /\ Len(parts) \in {2, 4}
           /\ \A k \in 1..Len(parts) : parts[k] # << >>
           /\ Len(parts) = 4 =>
                 parts[3] \in { <<"p","u","l","l">>, <<"i","s","s","u","e","s">>,
                                <<"c","o","m","m","i","t">>, <<"r","e","l","e","a","s","e","s">> }

\* C8: uiURL never produces a malformed link: its result is the input
\* unchanged or a link in which owner, repo and id are all non-empty.
C8_NeverMalformed ==
    ppc = "done" /\ urlIn # << >> => (urlOut = apiURL \/ WellFormedLink(urlOut))

\* C9: isRenovate is true exactly when the title begins with chore(deps) or
\* fix(deps), case-sensitive and at position 0, and two notifications with the
\* same title classify the same whatever their other fields.
C9_PrefixOfTitleOnly ==
    ppc = "done" /\ clsIn # << >> =>
        /\ \A k \in 1..2 :
              clsOut[k] = (clsIn[k].parts.lead = << >>
                             /\ clsIn[k].parts.mark \in {ChoreDeps, FixDeps})
        /\ clsIn[1].n.title = clsIn[2].n.title => clsOut[1] = clsOut[2]

C9_Witness ==
    /\ ppc = "done"
    /\ clsIn # << >>
    /\ clsIn[1].n.title = <<"f","i","x","(","d","e","p","s",")",":"," ","b","u","m","p"," ","x">>
    /\ clsIn[2].n.title = clsIn[1].n.title
    /\ clsIn[2].n.type # clsIn[1].n.type
    /\ clsIn[2].n.repo # clsIn[1].n.repo
    /\ clsIn[2].n.id # clsIn[1].n.id
    /\ clsIn[2].n.updatedAt # clsIn[1].n.updatedAt
    /\ clsOut = << TRUE, TRUE >>

\* C10: when the fetch succeeds with no notification, the run prints the
\* nothing-to-do message and returns: no prompt, no input read, no mark-as-read
\* request, no final message.
C10_EmptyFetchExits ==
    (token # "" /\ ~err /\ sumCounts = 0 /\ pc \notin {"start", "fetch", "await", "fetched"})
        => /\ pc = "exit"
           /\ out = << Ev("none", 0) >>
           /\ linesRead = << >> /\ markReqs = << >> /\ processed = << >>

C10_Witness ==
    /\ pc = "exit"
    /\ sumCounts = 0
    /\ out = << Ev("none", 0) >>

====
